---- MODULE Spec2Model ----
(***************************************************************************)
(* taskmasterra: the task-line grammar (package task), the history store   *)
(* (package journal) and the record-keep pass, in its two copies:          *)
(* recordKeep of cmd/taskmasterra/main.go and ProcessTasks of package      *)
(* task.  Lines and file contents are strings; a file is a record          *)
(* [exists, content].                                                      *)
(***************************************************************************)
EXTENDS Integers, Sequences, FiniteSets, TLC

VARIABLES source, journalFile, archiveFile,
          pc, variant, clock, timestamp,
          lines, journalEntries, archiveEntries, updatedLines,
          route, ops, runs, lastRunOk, call, cal

vars == <<source, journalFile, archiveFile, pc, variant, clock, timestamp,
          lines, journalEntries, archiveEntries, updatedLines,
          route, ops, runs, lastRunOk, call, cal>>

(***************************************************************************)
(* Bounds of the model.                                                    *)
(***************************************************************************)
\* lines of a document in SpecPass, and in Spec
MaxLines == 4
MaxRunLines == 2
\* record-keep runs in one behaviour
MaxRuns == 2
\* history-store calls in one behaviour of SpecHistory, and entries per batch
MaxCalls == 3
MaxBatch == 2

(***************************************************************************)
(* Strings.                                                                *)
(***************************************************************************)
Ch(s, i) == IF i >= 1 /\ i <= Len(s) THEN SubSeq(s, i, i) ELSE ""

From(s, i) == IF i > Len(s) THEN "" ELSE SubSeq(s, i, Len(s))

HasPrefixAt(s, i, p) ==
    /\ i >= 1
    /\ i + Len(p) - 1 <= Len(s)
    /\ SubSeq(s, i, i + Len(p) - 1) = p

Contains(s, p) == \E i \in 1..Len(s) : HasPrefixAt(s, i, p)

IsSuffix(old, new) ==
    /\ Len(old) <= Len(new)
    /\ From(new, Len(new) - Len(old) + 1) = old

\* the regexp class \s of Go's regexp package, and the class [ \t]
Space == {" ", "\t", "\n", "\f", "\r"}
Blank == {" ", "\t"}

Digits == {"0", "1", "2", "3", "4", "5", "6", "7", "8", "9"}

Upper ==
    { "A", "B", "C", "D", "E", "F", "G", "H", "I", "J", "K", "L", "M",
      "N", "O", "P", "Q", "R", "S", "T", "U", "V", "W", "X", "Y", "Z" }

\* the characters between which the regexp assertion \b sees no boundary
WordChars ==
    Upper \cup Digits \cup
    { "a", "b", "c", "d", "e", "f", "g", "h", "i", "j", "k", "l", "m",
      "n", "o", "p", "q", "r", "s", "t", "u", "v", "w", "x", "y", "z", "_" }

\* the length of the longest run of characters of class that starts at i
RECURSIVE RunLen(_, _, _)
RunLen(s, class, i) ==
    IF i <= Len(s) /\ Ch(s, i) \in class THEN 1 + RunLen(s, class, i + 1) ELSE 0

\* the lengths k >= min of a leading run of s made of characters of class:
\* what class* (min = 0) and class+ (min = 1) can match at the start of s
LeadRuns(s, class, min) == min..RunLen(s, class, 1)

\* the position of the first c at or after i, 0 when there is none
RECURSIVE IndexFrom(_, _, _)
IndexFrom(s, c, i) ==
    IF i > Len(s) THEN 0
    ELSE IF Ch(s, i) = c THEN i
    ELSE IndexFrom(s, c, i + 1)

\* strings.Split(s, "\n")
RECURSIVE Split(_)
SplitAt(s, i) ==
    IF i = 0 THEN <<s>>
    ELSE <<SubSeq(s, 1, i - 1)>> \o Split(From(s, i + 1))

Split(s) == SplitAt(s, IndexFrom(s, "\n", 1))

\* strings.Join(ls, "\n")
RECURSIVE Join(_)
Join(ls) ==
    IF Len(ls) = 0 THEN ""
    ELSE IF Len(ls) = 1 THEN ls[1]
    ELSE ls[1] \o "\n" \o Join(Tail(ls))

RECURSIVE ReplaceAllString(_, _, _)
ReplaceAllString(s, pat, rep) ==
    IF Len(s) < Len(pat) THEN s
    ELSE IF HasPrefixAt(s, 1, pat)
         THEN rep \o ReplaceAllString(From(s, Len(pat) + 1), pat, rep)
         ELSE Ch(s, 1) \o ReplaceAllString(From(s, 2), pat, rep)

(***************************************************************************)
(* Package task: the line classifier.                                      *)
(***************************************************************************)
\* variant: ^\s*- \[X\], the lowercase x is left out of the class
completedTaskRegex_UppercaseOnly(line) ==
    \E k \in LeadRuns(line, Space, 0) :
        /\ HasPrefixAt(line, k + 1, "- [")
        /\ Ch(line, k + 4) = "X"
        /\ Ch(line, k + 5) = "]"

\* ^\s*- \[[Xx]\]
completedTaskRegex(line) ==
    \E k \in LeadRuns(line, Space, 0) :
        /\ HasPrefixAt(line, k + 1, "- [")
        /\ Ch(line, k + 4) \in {"X", "x"}
        /\ Ch(line, k + 5) = "]"

\* ^\s*- \[.\] !!  followed by one space; the value is the set of the
\* positions at which a match ends (empty when the line does not match)
activeTaskRegex(line) ==
    {k + 9 : k \in {r \in LeadRuns(line, Space, 0) :
        /\ HasPrefixAt(line, r + 1, "- [")
        /\ Ch(line, r + 4) \notin {"", "\n"}
        /\ HasPrefixAt(line, r + 5, "] !! ")}}

\* (^- \[[BWX]\]|^\s+- \[[BWX]\])
touchedTaskRegex(line) ==
    \/ /\ HasPrefixAt(line, 1, "- [")
       /\ Ch(line, 4) \in {"B", "W", "X"}
       /\ Ch(line, 5) = "]"
    \/ \E k \in LeadRuns(line, Space, 1) :
        /\ HasPrefixAt(line, k + 1, "- [")
        /\ Ch(line, k + 4) \in {"B", "W", "X"}
        /\ Ch(line, k + 5) = "]"

\* ^- \[
taskRegex(line) == HasPrefixAt(line, 1, "- [")

\* ^[ \t]+- \[
subTaskRegex(line) ==
    \E k \in LeadRuns(line, Blank, 1) : HasPrefixAt(line, k + 1, "- [")

\* variant: ^[ \t]*-  followed by one space, the indentation is optional
taskDetailRegex_OptionalIndent(line) ==
    \E k \in LeadRuns(line, Blank, 0) : HasPrefixAt(line, k + 1, "- ")

\* ^[ \t]+-  followed by one space
taskDetailRegex(line) ==
    \E k \in LeadRuns(line, Blank, 1) : HasPrefixAt(line, k + 1, "- ")

\* variant: ^\s*- \[, leading whitespace allowed
IsTask_AnyIndent(line) ==
    \E k \in LeadRuns(line, Space, 0) : HasPrefixAt(line, k + 1, "- [")

IsTask(line) == taskRegex(line)

IsSubTask(line) == subTaskRegex(line)

\* variant: ^[ \t]*- , the indentation is optional
IsTaskDetail_AnyBullet(line) ==
    \E k \in LeadRuns(line, Blank, 0) : HasPrefixAt(line, k + 1, "- ")

IsTaskDetail(line) == taskDetailRegex(line)

\* variant: only the lowercase x counts as completed
IsCompleted_LowercaseOnly(line) ==
    IsTask(line) /\ HasPrefixAt(line, 1, "- [x]")

\* variant: no IsTask check before the regexp
IsCompleted_NoTaskCheck(line) == completedTaskRegex(line)

IsCompleted(line) ==
    IF ~IsTask(line) THEN FALSE ELSE completedTaskRegex(line)

\* variant: the prefix alone decides, the rest of the line is not searched
\* for a second "!!"
IsActive_PrefixOnly(line) ==
    IF ~IsTask(line) THEN FALSE ELSE activeTaskRegex(line) # {}

IsActive(line) ==
    IF ~IsTask(line) THEN FALSE
    ELSE IF activeTaskRegex(line) = {} THEN FALSE
    ELSE LET end == CHOOSE e \in activeTaskRegex(line) : TRUE
             rest == From(line, end + 1)
         IN  ~Contains(rest, "!!")

\* variant: the status is compared without regard to case
IsTouched_AnyCase(line) ==
    IF ~IsTask(line) /\ ~IsSubTask(line) THEN FALSE
    ELSE \E k \in LeadRuns(line, Space, 0) :
           /\ HasPrefixAt(line, k + 1, "- [")
           /\ Ch(line, k + 4) \in {"B", "W", "X", "b", "w", "x"}
           /\ Ch(line, k + 5) = "]"

\* variant: the status X is not a touched status
IsTouched_ForgetsX(line) ==
    IF ~IsTask(line) /\ ~IsSubTask(line) THEN FALSE
    ELSE \E k \in LeadRuns(line, Space, 0) :
           /\ HasPrefixAt(line, k + 1, "- [")
           /\ Ch(line, k + 4) \in {"B", "W"}
           /\ Ch(line, k + 5) = "]"

IsTouched(line) ==
    IF ~IsTask(line) /\ ~IsSubTask(line) THEN FALSE
    ELSE touchedTaskRegex(line)

(***************************************************************************)
(* Package task: the status-marker transform.                              *)
(***************************************************************************)
ReplaceStatus(line, oldMarker, newMarker) ==
    LET oldPattern == "- [" \o oldMarker \o "]"
    IN  IF Contains(line, oldPattern)
        THEN ReplaceAllString(line, oldPattern, "- [" \o newMarker \o "]")
        ELSE line

\* variant: the B pair is left out of the conversion
ConvertActiveToTouched_ForgetsB(line) ==
    ReplaceStatus(ReplaceStatus(line, "W", "w"), "X", "x")

\* variant: the X pair is left out of the conversion
ConvertActiveToTouched_ForgetsX(line) ==
    ReplaceStatus(ReplaceStatus(line, "B", "b"), "W", "w")

\* variant: settling also removes the active marker
ConvertActiveToTouched_ClearsMarker(line) ==
    ReplaceAllString(
      ReplaceStatus(ReplaceStatus(ReplaceStatus(line, "B", "b"), "W", "w"), "X", "x"),
      "] !! ", "] ")

ConvertActiveToTouched(line) ==
    ReplaceStatus(ReplaceStatus(ReplaceStatus(line, "B", "b"), "W", "w"), "X", "x")

(***************************************************************************)
(* Package task: priority and effort.                                      *)
(***************************************************************************)
\* variant: ([A-Z])(\d+), the two \b assertions are left out; the digit run
\* is still taken whole
RECURSIVE priorityEffortRegex_NoBoundary(_, _)
priorityEffortRegex_NoBoundary(line, i) ==
    IF i > Len(line) THEN <<>>
    ELSE LET n == RunLen(line, Digits, i + 1)
         IN  IF Ch(line, i) \in Upper /\ n >= 1
             THEN <<SubSeq(line, i, i + n), Ch(line, i),
                    SubSeq(line, i + 1, i + n)>>
             ELSE priorityEffortRegex_NoBoundary(line, i + 1)

\* \b([A-Z])(\d+)\b searched from position i: FindStringSubmatch gives the
\* leftmost match as <<match, letter, digits>>, <<>> when there is none.
\* The digit run is matched whole: a shorter one is followed by a digit,
\* where \b fails.
RECURSIVE priorityEffortRegex(_, _)
priorityEffortRegex(line, i) ==
    IF i > Len(line) THEN <<>>
    ELSE LET n == RunLen(line, Digits, i + 1)
         IN  IF /\ Ch(line, i - 1) \notin WordChars
                /\ Ch(line, i) \in Upper
                /\ n >= 1
                /\ Ch(line, i + n + 1) \notin WordChars
             THEN <<SubSeq(line, i, i + n), Ch(line, i),
                    SubSeq(line, i + 1, i + n)>>
             ELSE priorityEffortRegex(line, i + 1)

ParsePriority(line) ==
    LET matches == priorityEffortRegex(line, 1)
    IN  IF Len(matches) < 3 THEN "PriorityNone"
        ELSE CASE matches[2] = "A" -> "PriorityCritical"
               [] matches[2] = "B" -> "PriorityHigh"
               [] matches[2] = "C" -> "PriorityMedium"
               [] matches[2] = "D" -> "PriorityLow"
               [] OTHER -> "PriorityNone"

\* strconv.Atoi on a run of decimal digits
RECURSIVE Atoi(_)
Atoi(s) ==
    IF Len(s) = 0 THEN 0
    ELSE Atoi(SubSeq(s, 1, Len(s) - 1)) * 10
           + (CHOOSE d \in 0..9 : Ch("0123456789", d + 1) = Ch(s, Len(s)))

ParseEffort(line) ==
    LET matches == priorityEffortRegex(line, 1)
    IN  IF Len(matches) < 3 THEN 0 ELSE Atoi(matches[3])

(***************************************************************************)
(* Package utils and package journal: files and the history store.         *)
(***************************************************************************)
NoFile == [exists |-> FALSE, content |-> ""]

File(content) == [exists |-> TRUE, content |-> content]

\* os.WriteFile replaces the whole content; ioOk is the outcome the file
\* system gives the call (a failure leaves the file as it was)
WriteFileContent(file, content, ioOk) ==
    IF ioOk THEN [file |-> File(content), err |-> FALSE]
    ELSE [file |-> file, err |-> TRUE]

\* variant: the batch is written below the existing content
WriteToJournal_Appends(file, entries, ioOk) ==
    IF Len(entries) = 0 THEN [file |-> file, err |-> FALSE]
    ELSE LET existingContent == IF file.exists THEN file.content ELSE ""
             newContent == existingContent \o Join(entries) \o "\n"
         IN  WriteFileContent(file, newContent, ioOk)

\* variant: no early return for an empty batch
WriteToJournal_NoEmptyCheck(file, entries, ioOk) ==
    LET existingContent == IF file.exists THEN file.content ELSE ""
        newContent == Join(entries) \o "\n" \o existingContent
    IN  WriteFileContent(file, newContent, ioOk)

WriteToJournal(file, entries, ioOk) ==
    IF Len(entries) = 0 THEN [file |-> file, err |-> FALSE]
    ELSE LET existingContent == IF file.exists THEN file.content ELSE ""
             newContent == Join(entries) \o "\n" \o existingContent
         IN  WriteFileContent(file, newContent, ioOk)

\* variant: the existing content is not read back
WriteToArchive_Truncates(file, entries, ioOk) ==
    IF Len(entries) = 0 THEN [file |-> file, err |-> FALSE]
    ELSE WriteFileContent(file, Join(entries) \o "\n", ioOk)

WriteToArchive(file, entries, ioOk) ==
    IF Len(entries) = 0 THEN [file |-> file, err |-> FALSE]
    ELSE LET existingContent == IF file.exists THEN file.content ELSE ""
             newContent == Join(entries) \o "\n" \o existingContent
         IN  WriteFileContent(file, newContent, ioOk)

Digit(n) == Ch("0123456789", n + 1)

\* time.Now().UTC().Format("[2006-01-02 15:04:05 UTC]") at the instant t
\* seconds after 2006-01-02 15:04:00 UTC
FormatTimestamp(t) ==
    "[2006-01-02 15:04:" \o Digit((t \div 10) % 6) \o Digit(t % 10) \o " UTC]"

(***************************************************************************)
(* The record-keep pass: the loop of recordKeep and of ProcessTasks.       *)
(***************************************************************************)
\* variant: the format "%s%s", no space after the timestamp
Entry_NoSeparator(ts, line) == ts \o line

Entry(ts, line) == ts \o " " \o line

\* the value of nextLine after the inner loop over j that starts at j0: the
\* index after the run of detail lines that starts at j0
RECURSIVE ChildEnd(_, _)
\* variant: the inner loop runs over every line that is not a top-level task
RECURSIVE ChildEnd_ThroughPlain(_, _)
ChildEnd_ThroughPlain(ls, j) ==
    IF j <= Len(ls) /\ ~IsTask(ls[j]) THEN ChildEnd_ThroughPlain(ls, j + 1) ELSE j

\* variant: the inner loop stops after the first detail line
ChildEnd_OneChild(ls, j) ==
    IF j <= Len(ls) /\ IsTaskDetail(ls[j]) THEN j + 1 ELSE j

\* variant: the inner loop also runs over blank lines
RECURSIVE ChildEnd_OverBlank(_, _)
ChildEnd_OverBlank(ls, j) ==
    IF j <= Len(ls) /\ (IsTaskDetail(ls[j]) \/ ls[j] = "")
    THEN ChildEnd_OverBlank(ls, j + 1)
    ELSE j

ChildEnd(ls, j) ==
    IF j <= Len(ls) /\ IsTaskDetail(ls[j]) THEN ChildEnd(ls, j + 1) ELSE j

\* variant: the completed-only branch consumes the detail lines without
\* appending them
ArchivedChildren_Dropped(v, ts, children) == <<>>

\* the child lines as the completed-only branch appends them to the archive
\* batch: verbatim in recordKeep, timestamped in ProcessTasks
ArchivedChildren(v, ts, children) ==
    IF v = "recordKeep" THEN children
    ELSE [k \in 1..Len(children) |-> Entry(ts, children[k])]

\* the three batches of the loop; journalFrom, archiveFrom and updatedFrom
\* record, for each entry of a batch, the index of the input line it was
\* made from
EmptyBatches ==
    [journal |-> <<>>, archive |-> <<>>, updated |-> <<>>,
     journalFrom |-> <<>>, archiveFrom |-> <<>>, updatedFrom |-> <<>>]

Indices(i, n) == [k \in 1..n |-> i + k]

RECURSIVE ProcessLoop(_, _, _, _, _)
ProcessLoop(ls, i, ts, v, acc) ==
    IF i > Len(ls) THEN acc
    ELSE LET line == ls[i]
             nextLine == ChildEnd(ls, i + 1)
             children == SubSeq(ls, i + 1, nextLine - 1)
             childIdx == Indices(i, nextLine - 1 - i)
         IN  IF IsTouched(line) \/ IsActive(line)
             THEN IF ~IsCompleted(line)
                  THEN ProcessLoop(ls, nextLine, ts, v,
                         [acc EXCEPT
                            !.journal = @ \o <<Entry(ts, line)>> \o children,
                            !.journalFrom = @ \o <<i>> \o childIdx,
                            !.updated = @ \o <<ConvertActiveToTouched(line)>>
                                          \o children,
                            !.updatedFrom = @ \o <<i>> \o childIdx])
                  ELSE ProcessLoop(ls, nextLine, ts, v,
                         [acc EXCEPT
                            !.journal = @ \o <<Entry(ts, line)>> \o children,
                            !.journalFrom = @ \o <<i>> \o childIdx,
                            !.archive = @ \o <<Entry(ts, line)>>,
                            !.archiveFrom = @ \o <<i>>])
             ELSE IF IsCompleted(line)
             THEN ProcessLoop(ls, nextLine, ts, v,
                    [acc EXCEPT
                       !.archive = @ \o <<Entry(ts, line)>>
                                     \o ArchivedChildren(v, ts, children),
                       !.archiveFrom = @ \o <<i>> \o childIdx])
             ELSE ProcessLoop(ls, i + 1, ts, v,
                    [acc EXCEPT
                       !.updated = @ \o <<line>>,
                       !.updatedFrom = @ \o <<i>>])

Partition(ls, ts, v) == ProcessLoop(ls, 1, ts, v, EmptyBatches)

(***************************************************************************)
(* The documents and history files a run starts from.                      *)
(***************************************************************************)
LinePool ==
    { "- [W] a", "- [B] a", "- [X] a", "- [x] a", "- [x] !! a",
      "- [ ] !! a", "- [ ] a", "  - d", "  - [W] c", "" }

Docs(max) == UNION {[1..n -> LinePool] : n \in 1..max}

OldFile == File("OLD\n")

Variants == {"recordKeep", "ProcessTasks"}

Op(name, ok) == [op |-> name, ok |-> ok]

NoRoute == [journal |-> <<>>, archive |-> <<>>, updated |-> <<>>]

NoCall == [fn |-> "none", entries |-> <<>>, err |-> FALSE]

\* the locals of updateCalendar's loop before the first line: i counts the
\* lines scanned, from records the index of the line currentLine was set from
NoCal ==
    [i |-> 0, currentTask |-> "", currentLine |-> "", notes |-> <<>>,
     from |-> 0]

InitRun ==
    /\ variant \in Variants
    /\ pc = "idle"
    /\ clock = 0
    /\ timestamp = ""
    /\ lines = <<>>
    /\ journalEntries = <<>>
    /\ archiveEntries = <<>>
    /\ updatedLines = <<>>
    /\ route = NoRoute
    /\ ops = <<>>
    /\ runs = 0
    /\ lastRunOk = FALSE
    /\ call = NoCall
    /\ cal = NoCal

Init ==
    /\ source \in {NoFile} \cup {File(Join(d)) : d \in Docs(MaxRunLines)}
    /\ \E h \in {NoFile, OldFile} : journalFile = h /\ archiveFile = h
    /\ InitRun

Idle == pc \in {"idle", "done", "failed"}

(***************************************************************************)
(* One record-keep run, file operation by file operation: each operation   *)
(* succeeds or fails as the file system decides.  The clock is read once   *)
(* per run and runs are at least a second apart.                           *)
(***************************************************************************)
\* recordKeep only: expandPath rejects the path and nothing is read
ExpandPathFails ==
    /\ Idle
    /\ runs < MaxRuns
    /\ variant = "recordKeep"
    /\ runs' = runs + 1
    /\ ops' = <<>>
    /\ pc' = "failed"
    /\ UNCHANGED <<cal, source, journalFile, archiveFile, variant, clock, timestamp,
                   lines, journalEntries, archiveEntries, updatedLines, route,
                   lastRunOk, call>>

\* utils.ReadFileContent fails: the file is missing, too large or unreadable
ReadFails ==
    /\ Idle
    /\ runs < MaxRuns
    /\ runs' = runs + 1
    /\ ops' = <<Op("ReadFileContent", FALSE)>>
    /\ pc' = "failed"
    /\ UNCHANGED <<cal, source, journalFile, archiveFile, variant, clock, timestamp,
                   lines, journalEntries, archiveEntries, updatedLines, route,
                   lastRunOk, call>>

\* the source is read, the timestamp taken and the loop run
ReadAndPartition ==
    /\ Idle
    /\ runs < MaxRuns
    /\ source.exists
    /\ timestamp' = FormatTimestamp(clock + 1)
    /\ lines' = Split(source.content)
    /\ \E out \in {Partition(lines', timestamp', variant)} :
           /\ journalEntries' = out.journal
           /\ archiveEntries' = out.archive
           /\ updatedLines' = out.updated
           /\ route' = [journal |-> out.journalFrom,
                        archive |-> out.archiveFrom,
                        updated |-> out.updatedFrom]
    /\ clock' = clock + 1
    /\ runs' = runs + 1
    /\ ops' = <<Op("ReadFileContent", TRUE)>>
    /\ pc' = "loaded"
    /\ UNCHANGED <<cal, source, journalFile, archiveFile, variant, lastRunOk, call>>

\* variant: the journal is left for later, nothing is written at this step
RunWriteJournal_Deferred ==
    /\ pc = "loaded"
    /\ ops' = Append(ops, Op("WriteToJournal", TRUE))
    /\ pc' = "journaled"
    /\ UNCHANGED <<cal, source, journalFile, archiveFile, variant, clock,
                   timestamp, lines, journalEntries, archiveEntries,
                   updatedLines, route, runs, lastRunOk, call>>

RunWriteJournal ==
    /\ pc = "loaded"
    /\ \E ioOk \in BOOLEAN :
        LET r == WriteToJournal(journalFile, journalEntries, ioOk)
        IN  /\ journalFile' = r.file
            /\ ops' = Append(ops, Op("WriteToJournal", ~r.err))
            /\ pc' = IF r.err THEN "failed" ELSE "journaled"
    /\ UNCHANGED <<cal, source, archiveFile, variant, clock, timestamp, lines,
                   journalEntries, archiveEntries, updatedLines, route,
                   runs, lastRunOk, call>>

\* variant: the error of WriteToArchive is not returned
RunWriteArchive_IgnoresError ==
    /\ pc = "journaled"
    /\ \E ioOk \in BOOLEAN :
        LET r == WriteToArchive(archiveFile, archiveEntries, ioOk)
        IN  /\ archiveFile' = r.file
            /\ ops' = Append(ops, Op("WriteToArchive", ~r.err))
            /\ pc' = "archived"
    /\ UNCHANGED <<cal, source, journalFile, variant, clock, timestamp, lines,
                   journalEntries, archiveEntries, updatedLines, route,
                   runs, lastRunOk, call>>

RunWriteArchive ==
    /\ pc = "journaled"
    /\ \E ioOk \in BOOLEAN :
        LET r == WriteToArchive(archiveFile, archiveEntries, ioOk)
        IN  /\ archiveFile' = r.file
            /\ ops' = Append(ops, Op("WriteToArchive", ~r.err))
            /\ pc' = IF r.err THEN "failed" ELSE "archived"
    /\ UNCHANGED <<cal, source, journalFile, variant, clock, timestamp, lines,
                   journalEntries, archiveEntries, updatedLines, route,
                   runs, lastRunOk, call>>

RunWriteSource ==
    /\ pc = "archived"
    /\ \E ioOk \in BOOLEAN :
        LET r == WriteFileContent(source, Join(updatedLines), ioOk)
        IN  /\ source' = r.file
            /\ ops' = Append(ops, Op("WriteFileContent", ~r.err))
            /\ pc' = IF r.err THEN "failed" ELSE "done"
            /\ lastRunOk' = (lastRunOk \/ ~r.err)
    /\ UNCHANGED <<cal, journalFile, archiveFile, variant, clock, timestamp, lines,
                   journalEntries, archiveEntries, updatedLines, route,
                   runs, call>>

Next ==
    \/ ExpandPathFails
    \/ ReadFails
    \/ ReadAndPartition
    \/ RunWriteJournal
    \/ RunWriteArchive
    \/ RunWriteSource

Spec == Init /\ [][Next]_vars

(***************************************************************************)
(* SpecPass: record-keep runs in which no file operation fails, each run   *)
(* one step, over the longer documents; the first run finds no journal     *)
(* and an archive that already holds an entry.                             *)
(***************************************************************************)
InitPass ==
    /\ source \in {File(Join(d)) : d \in Docs(MaxLines)}
    /\ journalFile = NoFile
    /\ archiveFile = OldFile
    /\ InitRun

RecordKeep ==
    /\ Idle
    /\ runs < MaxRuns
    /\ source.exists
    /\ timestamp' = FormatTimestamp(clock + 1)
    /\ lines' = Split(source.content)
    /\ \E out \in {Partition(lines', timestamp', variant)} :
           /\ journalEntries' = out.journal
           /\ archiveEntries' = out.archive
           /\ updatedLines' = out.updated
           /\ route' = [journal |-> out.journalFrom,
                        archive |-> out.archiveFrom,
                        updated |-> out.updatedFrom]
    /\ journalFile' = WriteToJournal(journalFile, journalEntries', TRUE).file
    /\ archiveFile' = WriteToArchive(archiveFile, archiveEntries', TRUE).file
    /\ source' = WriteFileContent(source, Join(updatedLines'), TRUE).file
    /\ clock' = clock + 1
    /\ runs' = runs + 1
    /\ ops' = <<Op("ReadFileContent", TRUE), Op("WriteToJournal", TRUE),
                Op("WriteToArchive", TRUE), Op("WriteFileContent", TRUE)>>
    /\ pc' = "done"
    /\ lastRunOk' = TRUE
    /\ UNCHANGED <<cal, variant, call>>

NextPass == RecordKeep

SpecPass == InitPass /\ [][NextPass]_vars

(***************************************************************************)
(* SpecKinds: the same successful runs over shorter documents drawn from   *)
(* every kind of line the loop tells apart: the lowercase statuses, plain  *)
(* bullets, tab-indented details and completed or untouched sub-tasks too. *)
(***************************************************************************)
MaxKindLines == 3

KindPool ==
    LinePool \cup { "- [w] a", "- [b] a", "- p", "\t- d", "  - [x] c", "  - [ ] c",
                    "- [W] !! a" }

KindDocs == UNION {[1..n -> KindPool] : n \in 1..MaxKindLines}

InitKinds ==
    /\ source \in {File(Join(d)) : d \in KindDocs}
    /\ journalFile = NoFile
    /\ archiveFile = OldFile
    /\ InitRun

SpecKinds == InitKinds /\ [][NextPass]_vars

(***************************************************************************)
(* SpecTitles: the same successful runs over documents whose task titles   *)
(* hold a second bracketed status.                                         *)
(***************************************************************************)
TitlePool ==
    { "- [W] a - [B] z", "- [ ] !! a - [W] z", "- [x] a - [X] z", "  - d",
      "  - [W] c", "" }

TitleDocs == UNION {[1..n -> TitlePool] : n \in 1..MaxKindLines}

InitTitles ==
    /\ source \in {File(Join(d)) : d \in TitleDocs}
    /\ journalFile = NoFile
    /\ archiveFile = OldFile
    /\ InitRun

SpecTitles == InitTitles /\ [][NextPass]_vars

(***************************************************************************)
(* SpecHistory: the history store called directly, as the tests of package *)
(* journal do: a sequence of WriteToJournal and WriteToArchive calls, each *)
(* with its own batch.  call is the latest call, ops the log of the calls. *)
(***************************************************************************)
EntryPool == {"NEW", "entry1"}

Batches == UNION {[1..n -> EntryPool] : n \in 0..MaxBatch}

InitHistory ==
    /\ source = NoFile
    /\ journalFile \in {NoFile, OldFile}
    /\ archiveFile \in {NoFile, OldFile}
    /\ variant = "none"
    /\ pc = "idle"
    /\ clock = 0
    /\ timestamp = ""
    /\ lines = <<>>
    /\ journalEntries = <<>>
    /\ archiveEntries = <<>>
    /\ updatedLines = <<>>
    /\ route = NoRoute
    /\ ops = <<>>
    /\ runs = 0
    /\ lastRunOk = FALSE
    /\ call = NoCall
    /\ cal = NoCal

CallWriteToJournal ==
    /\ Len(ops) < MaxCalls
    /\ \E entries \in Batches, ioOk \in BOOLEAN :
        LET r == WriteToJournal(journalFile, entries, ioOk)
        IN  /\ journalFile' = r.file
            /\ call' = [fn |-> "WriteToJournal", entries |-> entries,
                        err |-> r.err]
            /\ ops' = Append(ops, Op("WriteToJournal", ~r.err))
    /\ UNCHANGED <<cal, source, archiveFile, pc, variant, clock, timestamp, lines,
                   journalEntries, archiveEntries, updatedLines, route, runs,
                   lastRunOk>>

CallWriteToArchive ==
    /\ Len(ops) < MaxCalls
    /\ \E entries \in Batches, ioOk \in BOOLEAN :
        LET r == WriteToArchive(archiveFile, entries, ioOk)
        IN  /\ archiveFile' = r.file
            /\ call' = [fn |-> "WriteToArchive", entries |-> entries,
                        err |-> r.err]
            /\ ops' = Append(ops, Op("WriteToArchive", ~r.err))
    /\ UNCHANGED <<cal, source, journalFile, pc, variant, clock, timestamp, lines,
                   journalEntries, archiveEntries, updatedLines, route, runs,
                   lastRunOk>>

NextHistory == CallWriteToJournal \/ CallWriteToArchive

SpecHistory == InitHistory /\ [][NextHistory]_vars

(***************************************************************************)
(* SpecLine: the functions of package task applied to one line, as the     *)
(* table tests of the package do.  lines holds the line, call the latest   *)
(* application and its results, ops the log of the applications; the       *)
(* status transforms write their result back to the line.                  *)
(***************************************************************************)
MaxEdits == 2

Indents == {"", "  ", "\t"}

StatusChars == {" ", "x", "X", "B", "W", "b", "w"}

\* what follows the closing bracket
Tails ==
    { " a", " !! a", " !! a !! b", " !! !!", " A1 !! a", " !!a", " !! ", "",
      " a - [B] z", " !! - [W]" }

OddLines ==
    { "", "text", "- p", "  - d", "- [", "- [x", "- [xx] a", "-[x] a",
      "* [x] a", "\f- [W] a", " \f- [X] a", "- [.] !! a" }

TextPool ==
    {i \o "- [" \o c \o "]" \o t : i \in Indents, c \in StatusChars, t \in Tails}
      \cup OddLines

MarkerPairs == {<<"B", "b">>, <<"W", "w">>, <<"X", "x">>, <<" ", "x">>}

InitLine ==
    /\ lines \in {<<l>> : l \in TextPool}
    /\ source = NoFile
    /\ journalFile = NoFile
    /\ archiveFile = NoFile
    /\ variant = "none"
    /\ pc = "idle"
    /\ clock = 0
    /\ timestamp = ""
    /\ journalEntries = <<>>
    /\ archiveEntries = <<>>
    /\ updatedLines = <<>>
    /\ route = NoRoute
    /\ ops = <<>>
    /\ runs = 0
    /\ lastRunOk = FALSE
    /\ call = NoCall
    /\ cal = NoCal

\* the body of the table test: the classifiers applied to the line
Classify ==
    /\ Len(ops) < MaxEdits
    /\ call' = [fn |-> "Classify", line |-> lines[1],
                isTask |-> IsTask(lines[1]),
                isSubTask |-> IsSubTask(lines[1]),
                isTaskDetail |-> IsTaskDetail(lines[1]),
                isCompleted |-> IsCompleted(lines[1]),
                isActive |-> IsActive(lines[1]),
                isTouched |-> IsTouched(lines[1])]
    /\ ops' = Append(ops, Op("Classify", TRUE))
    /\ UNCHANGED <<cal, source, journalFile, archiveFile, pc, variant, clock,
                   timestamp, lines, journalEntries, archiveEntries,
                   updatedLines, route, runs, lastRunOk>>

Replace ==
    /\ Len(ops) < MaxEdits
    /\ \E m \in MarkerPairs :
        LET result == ReplaceStatus(lines[1], m[1], m[2])
        IN  /\ call' = [fn |-> "ReplaceStatus", line |-> lines[1],
                        oldMarker |-> m[1], newMarker |-> m[2],
                        result |-> result]
            /\ lines' = <<result>>
    /\ ops' = Append(ops, Op("ReplaceStatus", TRUE))
    /\ UNCHANGED <<cal, source, journalFile, archiveFile, pc, variant, clock,
                   timestamp, journalEntries, archiveEntries, updatedLines,
                   route, runs, lastRunOk>>

Convert ==
    /\ Len(ops) < MaxEdits
    /\ LET result == ConvertActiveToTouched(lines[1])
       IN  /\ call' = [fn |-> "ConvertActiveToTouched", line |-> lines[1],
                       result |-> result]
           /\ lines' = <<result>>
    /\ ops' = Append(ops, Op("ConvertActiveToTouched", TRUE))
    /\ UNCHANGED <<cal, source, journalFile, archiveFile, pc, variant, clock,
                   timestamp, journalEntries, archiveEntries, updatedLines,
                   route, runs, lastRunOk>>

NextLine == Classify \/ Replace \/ Convert

SpecLine == InitLine /\ [][NextLine]_vars

(***************************************************************************)
(* SpecToken: ParsePriority and ParseEffort applied to one line, as the    *)
(* table tests of priority_test.go do.                                     *)
(***************************************************************************)
MaxParses == 2

\* what stands before the first candidate token, the candidate, and what
\* follows it
Leads == {"", "- [ ] ", "- [w] !! ", "- [ ] Task with ", "- [x] b2 "}

Candidates ==
    { "A1", "B2", "C3", "D5", "E8", "F13", "A007", "Z0", "A21", "AB1", "a1",
      "A1x", "xA1", "A", "13", "_B2", "D5_", "A-1", "task" }

Trails == {"", " task", " B2 C3", "-D5", " !! E8"}

TokenPool == {l \o c \o t : l \in Leads, c \in Candidates, t \in Trails}

InitToken ==
    /\ lines \in {<<l>> : l \in TokenPool}
    /\ source = NoFile
    /\ journalFile = NoFile
    /\ archiveFile = NoFile
    /\ variant = "none"
    /\ pc = "idle"
    /\ clock = 0
    /\ timestamp = ""
    /\ journalEntries = <<>>
    /\ archiveEntries = <<>>
    /\ updatedLines = <<>>
    /\ route = NoRoute
    /\ ops = <<>>
    /\ runs = 0
    /\ lastRunOk = FALSE
    /\ call = NoCall
    /\ cal = NoCal

CallParsePriority ==
    /\ Len(ops) < MaxParses
    /\ call' = [fn |-> "ParsePriority", line |-> lines[1],
                result |-> ParsePriority(lines[1])]
    /\ ops' = Append(ops, Op("ParsePriority", TRUE))
    /\ UNCHANGED <<cal, source, journalFile, archiveFile, pc, variant, clock,
                   timestamp, lines, journalEntries, archiveEntries,
                   updatedLines, route, runs, lastRunOk>>

CallParseEffort ==
    /\ Len(ops) < MaxParses
    /\ call' = [fn |-> "ParseEffort", line |-> lines[1],
                result |-> ParseEffort(lines[1])]
    /\ ops' = Append(ops, Op("ParseEffort", TRUE))
    /\ UNCHANGED <<cal, source, journalFile, archiveFile, pc, variant, clock,
                   timestamp, lines, journalEntries, archiveEntries,
                   updatedLines, route, runs, lastRunOk>>

NextToken == CallParsePriority \/ CallParseEffort

SpecToken == InitToken /\ [][NextToken]_vars

(***************************************************************************)
(* SpecReminders: one updateCalendar run, step by step: the file is read,  *)
(* the reminders list cleared, the file opened and scanned line by line;   *)
(* every call of the reminders service succeeds or fails as the service    *)
(* decides and is logged in ops with its arguments.                        *)
(***************************************************************************)
MaxCalLines == 3

\* strings.TrimSpace
RECURSIVE TrimLeft(_)
TrimLeft(s) ==
    IF Len(s) > 0 /\ Ch(s, 1) \in Space THEN TrimLeft(From(s, 2)) ELSE s

RECURSIVE TrimRight(_)
TrimRight(s) ==
    IF Len(s) > 0 /\ Ch(s, Len(s)) \in Space
    THEN TrimRight(SubSeq(s, 1, Len(s) - 1))
    ELSE s

TrimSpace(s) == TrimRight(TrimLeft(s))

\* bufio.Scanner with ScanLines: the lines between newlines, each without
\* its trailing carriage return, and no empty last line
DropCR(s) ==
    IF Len(s) > 0 /\ Ch(s, Len(s)) = "\r" THEN SubSeq(s, 1, Len(s) - 1) ELSE s

ScanLines(content) ==
    LET ls == Split(content)
        n == IF ls[Len(ls)] = "" THEN Len(ls) - 1 ELSE Len(ls)
    IN  [k \in 1..n |-> DropCR(ls[k])]

CalPool ==
    { "- [ ] !! a", "- [w] b", "- [x] c", "  - d", "\t- [W] e", "", "- [",
      "- [ ] " }

CalDocs == UNION {[1..n -> CalPool] : n \in 0..MaxCalLines}

InitReminders ==
    /\ source \in {File(Join(d) \o "\n") : d \in CalDocs}
    /\ journalFile = NoFile
    /\ archiveFile = NoFile
    /\ variant = "updateCalendar"
    /\ pc = "idle"
    /\ clock = 0
    /\ timestamp = ""
    /\ lines = <<>>
    /\ journalEntries = <<>>
    /\ archiveEntries = <<>>
    /\ updatedLines = <<>>
    /\ route = NoRoute
    /\ ops = <<>>
    /\ runs = 0
    /\ lastRunOk = FALSE
    /\ call = NoCall
    /\ cal = NoCal

\* rs.AddReminder(currentTask, task.IsActive(currentLine),
\* strings.Join(notes, "\n")) with the outcome ok
AddReminder(c, ok) ==
    [op |-> "AddReminder", ok |-> ok, task |-> c.currentTask,
     withDueDate |-> IsActive(c.currentLine), note |-> Join(c.notes),
     from |-> c.from]

\* expandPath or utils.ReadFileContent fails: the service is not called
CalReadFails ==
    /\ Idle
    /\ runs < MaxRuns
    /\ runs' = runs + 1
    /\ ops' = <<Op("ReadFileContent", FALSE)>>
    /\ pc' = "failed"
    /\ UNCHANGED <<cal, source, journalFile, archiveFile, variant, clock,
                   timestamp, lines, journalEntries, archiveEntries,
                   updatedLines, route, lastRunOk, call>>

\* the file is read and validated; validation only prints
CalRead ==
    /\ Idle
    /\ runs < MaxRuns
    /\ source.exists
    /\ runs' = runs + 1
    /\ ops' = <<Op("ReadFileContent", TRUE)>>
    /\ lines' = <<>>
    /\ cal' = NoCal
    /\ pc' = "read"
    /\ UNCHANGED <<source, journalFile, archiveFile, variant, clock,
                   timestamp, journalEntries, archiveEntries, updatedLines,
                   route, lastRunOk, call>>

\* variant: the error of ClearList is not returned
CalClearList_IgnoresError ==
    /\ pc = "read"
    /\ \E ok \in BOOLEAN :
        /\ ops' = Append(ops, Op("ClearList", ok))
        /\ pc' = "cleared"
    /\ UNCHANGED <<cal, source, journalFile, archiveFile, variant, clock,
                   timestamp, lines, journalEntries, archiveEntries,
                   updatedLines, route, runs, lastRunOk, call>>

CalClearList ==
    /\ pc = "read"
    /\ \E ok \in BOOLEAN :
        /\ ops' = Append(ops, Op("ClearList", ok))
        /\ pc' = IF ok THEN "cleared" ELSE "failed"
    /\ UNCHANGED <<cal, source, journalFile, archiveFile, variant, clock,
                   timestamp, lines, journalEntries, archiveEntries,
                   updatedLines, route, runs, lastRunOk, call>>

\* os.Open and the scanner over the file
CalOpen ==
    /\ pc = "cleared"
    /\ \E ok \in BOOLEAN :
        /\ ops' = Append(ops, Op("Open", ok))
        /\ lines' = IF ok THEN ScanLines(source.content) ELSE lines
        /\ pc' = IF ok THEN "scanning" ELSE "failed"
    /\ UNCHANGED <<cal, source, journalFile, archiveFile, variant, clock,
                   timestamp, journalEntries, archiveEntries, updatedLines,
                   route, runs, lastRunOk, call>>

\* the locals after a line that starts a new task
StartTask(c, line, i) ==
    LET closingBracketIndex == IndexFrom(line, "]", 1)
    IN  IF closingBracketIndex # 0
        THEN [c EXCEPT !.currentTask = TrimSpace(From(line, closingBracketIndex + 1)),
                       !.currentLine = line,
                       !.notes = <<>>,
                       !.from = i,
                       !.i = i]
        ELSE [c EXCEPT !.i = i]

\* one iteration of the loop over the scanned lines
CalScanLine ==
    /\ pc = "scanning"
    /\ cal.i < Len(lines)
    /\ LET i == cal.i + 1
           line == lines[i]
       IN  IF IsTask(line) /\ ~IsCompleted(line)
           THEN IF cal.currentTask # ""
                THEN \E ok \in BOOLEAN :
                       /\ ops' = Append(ops, AddReminder(cal, ok))
                       /\ cal' = IF ok THEN StartTask(cal, line, i) ELSE cal
                       /\ pc' = IF ok THEN "scanning" ELSE "failed"
                ELSE /\ cal' = StartTask(cal, line, i)
                     /\ UNCHANGED <<ops, pc>>
           ELSE IF cal.currentTask # "" /\ IsTaskDetail(line)
           THEN /\ cal' = [cal EXCEPT !.notes = Append(@, line), !.i = i]
                /\ UNCHANGED <<ops, pc>>
           ELSE /\ cal' = [cal EXCEPT !.i = i]
                /\ UNCHANGED <<ops, pc>>
    /\ UNCHANGED <<source, journalFile, archiveFile, variant, clock,
                   timestamp, lines, journalEntries, archiveEntries,
                   updatedLines, route, runs, lastRunOk, call>>

\* after the loop: the last task, if there is one
CalLastTask ==
    /\ pc = "scanning"
    /\ cal.i = Len(lines)
    /\ IF cal.currentTask # ""
       THEN \E ok \in BOOLEAN :
              /\ ops' = Append(ops, AddReminder(cal, ok))
              /\ pc' = IF ok THEN "done" ELSE "failed"
       ELSE /\ pc' = "done"
            /\ UNCHANGED ops
    /\ UNCHANGED <<cal, source, journalFile, archiveFile, variant, clock,
                   timestamp, lines, journalEntries, archiveEntries,
                   updatedLines, route, runs, lastRunOk, call>>

NextReminders ==
    \/ CalReadFails
    \/ CalRead
    \/ CalClearList
    \/ CalOpen
    \/ CalScanLine
    \/ CalLastTask

SpecReminders == InitReminders /\ [][NextReminders]_vars

(***************************************************************************)
(* Vocabulary of the properties.                                           *)
(***************************************************************************)
FileOrder ==
    <<"ReadFileContent", "WriteToJournal", "WriteToArchive", "WriteFileContent">>

\* the operations of the current run so far: n of them, all successful
AllOk(n) == Len(ops) = n /\ \A i \in 1..n : ops[i].ok

OpsInOrder ==
    /\ Len(ops) <= Len(FileOrder)
    /\ \A i \in 1..Len(ops) :
        /\ ops[i].op = FileOrder[i]
        /\ i < Len(ops) => ops[i].ok

PrevContent(file) == IF file.exists THEN file.content ELSE ""

Lower(c) ==
    IF c = "B" THEN "b" ELSE IF c = "W" THEN "w" ELSE IF c = "X" THEN "x" ELSE c

\* a top-level task line with its status character c lowercased
StatusLowered(line) == SubSeq(line, 1, 3) \o Lower(Ch(line, 4)) \o From(line, 5)

\* the status character of a top-level task line "- [c]..."
HasStatus(line, cs) ==
    /\ HasPrefixAt(line, 1, "- [")
    /\ Ch(line, 4) \in cs
    /\ Ch(line, 5) = "]"

Plain(line) == ~IsTask(line) /\ ~IsTaskDetail(line)

\* the index after the maximal run of detail lines that follows line i
GroupEnd(i) ==
    CHOOSE e \in (i + 1)..(Len(lines) + 1) :
        /\ \A j \in (i + 1)..(e - 1) : IsTaskDetail(lines[j])
        /\ e = Len(lines) + 1 \/ ~IsTaskDetail(lines[e])

Range(f) == {f[k] : k \in 1..Len(f)}

\* what a finished run left in the three files
FilesWritten ==
    /\ source = File(Join(updatedLines))
    /\ journalEntries # <<>> =>
         HasPrefixAt(journalFile.content, 1, Join(journalEntries) \o "\n")
    /\ archiveEntries # <<>> =>
         HasPrefixAt(archiveFile.content, 1, Join(archiveEntries) \o "\n")

\* a line that carries an uppercase touched status, indented or not
UppercaseStatus(line) ==
    \E k \in LeadRuns(line, Blank, 0) :
        /\ HasPrefixAt(line, k + 1, "- [")
        /\ Ch(line, k + 4) \in {"B", "W", "X"}
        /\ Ch(line, k + 5) = "]"

(***************************************************************************)
(* Properties of a record-keep run.                                        *)
(***************************************************************************)
\* C1: the file operations of a run happen in the order read source, write
\* journal, write archive, overwrite source, each only after every earlier
\* one succeeded; the journal changes only after a successful read, the
\* archive only after a successful read and journal write, the source only
\* after a successful read, journal write and archive write.
C1_OrderedContainment ==
    /\ [](OpsInOrder)
    /\ [][/\ journalFile' # journalFile => AllOk(1)
          /\ archiveFile' # archiveFile => AllOk(2)
          /\ source' # source => AllOk(3)]_vars

\* a run that failed at the archive write after the journal was prepended
W_C1_ArchiveWriteFailed ==
    /\ pc = "failed"
    /\ Len(ops) = 3
    /\ ~ops[3].ok
    /\ journalEntries # <<>>
    /\ HasPrefixAt(journalFile.content, 1, Join(journalEntries) \o "\n")
    /\ updatedLines # lines
    /\ source = File(Join(lines))

C3_CompletedTouchedBoth ==
    pc = "done" =>
      /\ FilesWritten
      /\ \A i \in 1..Len(lines) :
          LET line == lines[i]
          IN  ( \/ HasStatus(line, {"X"})
                \/ HasStatus(line, {"x", "X"}) /\ IsActive(line) )
              => /\ \E p \in 1..Len(journalEntries) :
                      /\ route.journal[p] = i
                      /\ journalEntries[p] = Entry(timestamp, line)
                 /\ \E q \in 1..Len(archiveEntries) :
                      /\ route.archive[q] = i
                      /\ archiveEntries[q] = Entry(timestamp, line)
                 /\ i \notin Range(route.updated)

W_C3_CompletedTouchedBoth ==
    /\ pc = "done"
    /\ lines = <<"- [ ] a", "- [X] a", "- [x] !! a">>
    /\ Len(journalEntries) = 2
    /\ Len(archiveEntries) = 2
    /\ source.content = "- [ ] a"

\* C4: a top-level completed task that is neither touched nor active is
\* emitted to the archive batch followed by all its contiguous trailing
\* detail lines; nothing of the group is emitted to the journal batch or
\* kept in the rewritten document.
C4_CompletedGroupArchived ==
    pc = "done" =>
      /\ FilesWritten
      /\ \A i \in 1..Len(lines) :
          LET line == lines[i]
              e == GroupEnd(i)
              n == e - 1 - i
          IN  (HasStatus(line, {"x"}) /\ ~IsActive(line))
              => /\ \E q \in 1..Len(archiveEntries) :
                      /\ q + n <= Len(archiveEntries)
                      /\ \A d \in 0..n :
                          /\ route.archive[q + d] = i + d
                          /\ archiveEntries[q + d] \in
                               IF d = 0 THEN {Entry(timestamp, line)}
                               ELSE {lines[i + d],
                                     Entry(timestamp, lines[i + d])}
                 /\ Range(route.journal) \cap (i..(e - 1)) = {}
                 /\ Range(route.updated) \cap (i..(e - 1)) = {}

W_C4_CompletedGroupArchived ==
    /\ pc = "done"
    /\ lines = <<"- [x] a", "  - d", "  - [W] c", "- [ ] a">>
    /\ Len(archiveEntries) = 3
    /\ journalEntries = <<>>
    /\ source.content = "- [ ] a"

(***************************************************************************)
(* Properties of the history store.                                        *)
(***************************************************************************)
\* C5: a successful WriteToJournal or WriteToArchive with a non-empty batch
\* replaces the content by the entries joined with newlines, one newline,
\* then the whole previous content (empty when the file did not exist);
\* previous content "OLD\n" and batch <<"NEW">> give "NEW\nOLD\n".
C5_Prepend ==
    [][ops' # ops /\ ~call'.err /\ call'.entries # <<>> =>
         /\ call'.fn = "WriteToJournal" =>
              journalFile' =
                File(Join(call'.entries) \o "\n" \o PrevContent(journalFile))
         /\ call'.fn = "WriteToArchive" =>
              archiveFile' =
                File(Join(call'.entries) \o "\n" \o PrevContent(archiveFile))
         /\ (call'.fn = "WriteToJournal" /\ journalFile = OldFile
               /\ call'.entries = <<"NEW">>)
              => journalFile'.content = "NEW\nOLD\n"
         /\ (call'.fn = "WriteToArchive" /\ archiveFile = OldFile
               /\ call'.entries = <<"NEW">>)
              => archiveFile'.content = "NEW\nOLD\n"
         /\ (call'.fn = "WriteToJournal" /\ ~journalFile.exists
               /\ call'.entries = <<"entry1", "NEW">>)
              => journalFile'.content = "entry1\nNEW\n"]_vars

W_C5_Prepend ==
    /\ Len(ops) = 1
    /\ call = [fn |-> "WriteToArchive", entries |-> <<"NEW">>, err |-> FALSE]
    /\ archiveFile.content = "NEW\nOLD\n"

\* C6: over successful WriteToJournal and WriteToArchive calls the content
\* a history file had before a call is a suffix of its content after the
\* call, an existing file stays, and a write to one history file does not
\* change the other.
C6_HistoryOnlyGrows ==
    [][ops' # ops /\ ~call'.err =>
         /\ IsSuffix(PrevContent(journalFile), journalFile'.content)
         /\ IsSuffix(PrevContent(archiveFile), archiveFile'.content)
         /\ journalFile.exists => journalFile'.exists
         /\ archiveFile.exists => archiveFile'.exists
         /\ call'.fn = "WriteToJournal" => archiveFile' = archiveFile
         /\ call'.fn = "WriteToArchive" => journalFile' = journalFile]_vars

W_C6_HistoryOnlyGrows ==
    /\ Len(ops) = 3
    /\ journalFile.content = "entry1\nNEW\nOLD\n"
    /\ archiveFile.content = "NEW\n"

\* C7: WriteToJournal and WriteToArchive with an empty batch return success
\* and write nothing: an existing history file keeps its content and a
\* missing one stays missing.
C7_EmptyBatchNoWrite ==
    [][ops' # ops /\ call'.entries = <<>> =>
         /\ ~call'.err
         /\ journalFile' = journalFile
         /\ archiveFile' = archiveFile]_vars

W_C7_EmptyBatchNoWrite ==
    /\ Len(ops) = 2
    /\ call = [fn |-> "WriteToJournal", entries |-> <<>>, err |-> FALSE]
    /\ ~journalFile.exists
    /\ archiveFile = OldFile
    /\ ops[1].op = "WriteToArchive"

(***************************************************************************)
(* Statements the code does not satisfy.                                   *)
(***************************************************************************)
\* C8: after every successful recordKeep run, whatever the document holds,
\* both the journal file and the archive file exist.
C8_HistoryFilesExist ==
    pc = "done" => journalFile.exists /\ archiveFile.exists

\* C9: record-keep is idempotent on the document: a run on the document
\* written by a previous successful run rewrites it unchanged.
C9_Idempotent ==
    (pc = "done" /\ runs >= 2) => source.content = Join(lines)

\* C10: after a successful run no line of the rewritten document carries an
\* uppercase touched status [B], [W] or [X].
C10_NoUppercaseStatus ==
    pc = "done" =>
      \A i \in 1..Len(updatedLines) : ~UppercaseStatus(updatedLines[i])

(***************************************************************************)
(* What a run may, and may not, put in each of its three outputs.          *)
(***************************************************************************)
\* C11: after a successful run no top-level task line of the rewritten
\* document is completed: every input line with status x or X at the top
\* level is absent from the output.
C11_NoCompletedKept ==
    pc = "done" =>
      /\ FilesWritten
      /\ \A i \in 1..Len(lines) :
            HasStatus(lines[i], {"x", "X"}) => i \notin Range(route.updated)
      /\ \A q \in 1..Len(updatedLines) :
            ~HasStatus(updatedLines[q], {"x", "X"})
      /\ \A l \in Range(Split(source.content)) : ~HasStatus(l, {"x", "X"})

W_C11_NoCompletedKept ==
    /\ pc = "done"
    /\ lines = <<"- [x] a", "- [W] a", "- [X] a", "- [x] !! a">>
    /\ source.content = "- [w] a"
    /\ Len(archiveEntries) = 3

\* a top-level line that carries the active marker: "- [c] !! " and no
\* second "!!" after it
ActiveMarked(line) ==
    /\ HasPrefixAt(line, 1, "- [")
    /\ Len(line) >= 9
    /\ SubSeq(line, 5, 9) = "] !! "
    /\ \A k \in 10..Len(line) : ~HasPrefixAt(line, k, "!!")

\* a top-level task with status space, b, w or x and no active marker
Untouched(line) == HasStatus(line, {" ", "b", "w", "x"}) /\ ~ActiveMarked(line)

\* a top-level bullet without brackets
PlainBullet(line) == HasPrefixAt(line, 1, "- ") /\ ~HasPrefixAt(line, 1, "- [")

\* a line the loop journals when it reaches it: a touched or active
\* top-level task, or a sub-task with status B, W or X
JournalHead(line) == UppercaseStatus(line) \/ ActiveMarked(line)

\* C12 as stated: a journaled line is a touched or active top-level task or
\* a contiguous trailing detail line of one; untouched non-active tasks,
\* plain bullets and the detail lines under them are never journaled.
C12_UntouchedGroupNeverJournaled ==
    pc = "done" =>
      /\ \A p \in 1..Len(journalEntries) :
            \E h \in 1..route.journal[p] :
                /\ HasStatus(lines[h], {"B", "W", "X"}) \/ ActiveMarked(lines[h])
                /\ \A j \in (h + 1)..route.journal[p] : IsTaskDetail(lines[j])
      /\ \A i \in 1..Len(lines) :
            (Untouched(lines[i]) \/ PlainBullet(lines[i]))
            => Range(route.journal) \cap (i..(GroupEnd(i) - 1)) = {}

\* C12, amended: a journaled line is a touched or active top-level task, a
\* sub-task with status B, W or X, or a contiguous trailing detail line of
\* one of these; untouched non-active tasks and plain bullets are never
\* journaled, nor is any detail line under a completed one, and a detail
\* line under an untouched, not completed task or a plain bullet is
\* journaled exactly when it is, or follows in the same run of detail lines,
\* a sub-task with status B, W or X.
C12_JournalOnlyTouchedRuns ==
    pc = "done" =>
      /\ FilesWritten
      /\ \A p \in 1..Len(journalEntries) :
            \E h \in 1..route.journal[p] :
                /\ JournalHead(lines[h])
                /\ \A j \in (h + 1)..route.journal[p] : IsTaskDetail(lines[j])
      /\ \A i \in 1..Len(lines) :
            (Untouched(lines[i]) \/ PlainBullet(lines[i]))
            => /\ i \notin Range(route.journal)
               /\ \A j \in (i + 1)..(GroupEnd(i) - 1) :
                     j \in Range(route.journal)
                     <=> /\ ~HasStatus(lines[i], {"x"})
                         /\ \E t \in (i + 1)..j : UppercaseStatus(lines[t])

W_C12_JournalOnlyTouchedRuns ==
    /\ pc = "done"
    /\ lines = <<"- p", "  - [W] c", "\t- d">>
    /\ journalEntries = <<Entry(timestamp, "  - [W] c"), "\t- d">>
    /\ source.content = "- p\n  - [w] c\n\t- d"

\* a top-level task line whose status is not x or X
OpenTask(line) == HasPrefixAt(line, 1, "- [") /\ ~HasStatus(line, {"x", "X"})

IsTimestamp(ts) ==
    /\ Len(ts) = 25
    /\ \A k \in {2, 3, 4, 5, 7, 8, 10, 11, 13, 14, 16, 17, 19, 20} :
          Ch(ts, k) \in Digits
    /\ Ch(ts, 1) = "[" /\ Ch(ts, 6) = "-" /\ Ch(ts, 9) = "-"
    /\ Ch(ts, 12) = " " /\ Ch(ts, 15) = ":" /\ Ch(ts, 18) = ":"
    /\ SubSeq(ts, 21, 25) = " UTC]"

\* the entry of batch made from input line i is the line verbatim, or the
\* line after the timestamp of the run and one space; a top-level task line
\* is never verbatim
Stamped(batch, from) ==
    \A p \in 1..Len(batch) :
        LET line == lines[from[p]]
        IN  /\ batch[p] \in {line, timestamp \o " " \o line}
            /\ HasPrefixAt(line, 1, "- [") =>
                  /\ batch[p] = timestamp \o " " \o line
                  /\ SubSeq(batch[p], 1, 25) = timestamp
                  /\ From(batch[p], 27) = line

\* C14: every task line emitted to the journal batch or to the archive
\* batch, as opposed to a child detail line, is the timestamp of the shape
\* [YYYY-MM-DD HH:MM:SS UTC], one space and the original line unmodified, and
\* all entries written by one run carry the same timestamp.
C14_EntryFormat ==
    pc = "done" =>
      /\ FilesWritten
      /\ IsTimestamp(timestamp)
      /\ Stamped(journalEntries, route.journal)
      /\ Stamped(archiveEntries, route.archive)

W_C14_EntryFormat ==
    /\ pc = "done"
    /\ lines = <<"- [X] a", "- [ ] !! a", "- [x] a">>
    /\ timestamp = "[2006-01-02 15:04:01 UTC]"
    /\ journalEntries = <<"[2006-01-02 15:04:01 UTC] - [X] a",
                          "[2006-01-02 15:04:01 UTC] - [ ] !! a">>
    /\ archiveEntries = <<"[2006-01-02 15:04:01 UTC] - [X] a",
                          "[2006-01-02 15:04:01 UTC] - [x] a">>

(***************************************************************************)
(* Properties of the line classifier and of the status transforms.         *)
(***************************************************************************)
\* optional leading whitespace, "-", a space, "[", one status character, "]"
BracketPattern(line) ==
    \E k \in 0..Len(line) :
        /\ \A j \in 1..k : Ch(line, j) \in Space
        /\ HasPrefixAt(line, k + 1, "- [")
        /\ Ch(line, k + 4) # ""
        /\ Ch(line, k + 5) = "]"

\* one or more spaces or tabs, then "- ["
IndentedBracket(line) ==
    \E k \in 1..Len(line) :
        /\ \A j \in 1..k : Ch(line, j) \in Blank
        /\ HasPrefixAt(line, k + 1, "- [")

\* C15 as stated: IsTask is true iff the line is optional leading
\* whitespace, "-", a space, "[", one status character and "]"; indentation
\* does not affect it.
C15_TaskIffBracketPattern ==
    call.fn = "Classify" => (call.isTask <=> BracketPattern(call.line))

\* C15, amended: IsTask is true iff the line begins in its first column
\* with "-", a space and "["; neither a status character nor "]" is needed,
\* and an indented line is never a task: when "- [" follows leading blanks
\* the line is a sub-task.
C15_TaskIffColumnOne ==
    call.fn = "Classify" =>
      /\ call.isTask <=> /\ Ch(call.line, 1) = "-"
                         /\ Ch(call.line, 2) = " "
                         /\ Ch(call.line, 3) = "["
      /\ Ch(call.line, 1) \in Space => ~call.isTask
      /\ IndentedBracket(call.line) => call.isSubTask

W_C15_TaskIffColumnOne ==
    /\ call.fn = "Classify"
    /\ call.line = "  - [W] a"
    /\ ~call.isTask
    /\ call.isSubTask
    /\ BracketPattern(call.line)
    /\ IndentedBracket(call.line)

\* C16 as stated: on every string on which IsTask is false, IsCompleted,
\* IsActive and IsTouched are all false.
C16_NonTaskAllFalse ==
    (call.fn = "Classify" /\ ~call.isTask)
    => ~call.isCompleted /\ ~call.isActive /\ ~call.isTouched

\* C16, amended: on every string on which IsTask is false, IsCompleted and
\* IsActive are false, and IsTouched is true exactly on the sub-tasks with
\* status B, W or X: one or more spaces or tabs, "- [", the status, "]".
C16_NonTaskOnlyTouched ==
    (call.fn = "Classify" /\ ~call.isTask)
    => /\ ~call.isCompleted
       /\ ~call.isActive
       /\ call.isTouched <=>
            \E k \in 1..Len(call.line) :
                /\ \A j \in 1..k : Ch(call.line, j) \in Blank
                /\ HasPrefixAt(call.line, k + 1, "- [")
                /\ Ch(call.line, k + 4) \in {"B", "W", "X"}
                /\ Ch(call.line, k + 5) = "]"

W_C16_NonTaskOnlyTouched ==
    /\ call.fn = "Classify"
    /\ call.line = "\t- [X] !! a"
    /\ ~call.isTask
    /\ ~call.isCompleted
    /\ ~call.isActive
    /\ call.isTouched

C18_StatusDecides ==
    (call.fn = "Classify" /\ HasPrefixAt(call.line, 1, "- [")
       /\ Ch(call.line, 5) = "]")
    => LET c == Ch(call.line, 4)
       IN  /\ call.isTouched <=> c \in {"B", "W", "X"}
           /\ call.isCompleted <=> c \in {"x", "X"}
           /\ c = "X" => call.isTouched /\ call.isCompleted
           /\ c = "x" => call.isCompleted /\ ~call.isTouched
           /\ c \in {"b", "w", " "} => ~call.isTouched /\ ~call.isCompleted

W_C18_StatusDecides ==
    /\ call.fn = "Classify"
    /\ call.line = "- [X] !! a"
    /\ call.isTouched
    /\ call.isCompleted
    /\ call.isActive

\* the application before the latest one
PrevOp == IF Len(ops) >= 2 THEN ops[Len(ops) - 1].op ELSE "none"

\* C19: ConvertActiveToTouched is idempotent, applied to its own result it
\* returns it unchanged, and IsTouched is false on every result.
C19_ConvertIdempotent ==
    /\ (call.fn = "ConvertActiveToTouched"
          /\ PrevOp = "ConvertActiveToTouched")
       => call.result = call.line
    /\ (call.fn = "Classify" /\ PrevOp = "ConvertActiveToTouched")
       => ~call.isTouched

W_C19_ConvertIdempotent ==
    /\ Len(ops) = 2
    /\ PrevOp = "ConvertActiveToTouched"
    /\ call.fn = "ConvertActiveToTouched"
    /\ call.line = "  - [x] !! - [w]"
    /\ call.result = "  - [x] !! - [w]"

\* the position of the first occurrence of pat in s at or after i, 0 when
\* there is none
RECURSIVE FirstFrom(_, _, _)
FirstFrom(s, pat, i) ==
    IF i + Len(pat) - 1 > Len(s) THEN 0
    ELSE IF HasPrefixAt(s, i, pat) THEN i
    ELSE FirstFrom(s, pat, i + 1)

\* the line with the status character of its first "- [old]" replaced
ReplaceFirst(line, old, new) ==
    LET p == FirstFrom(line, "- [" \o old \o "]", 1)
    IN  IF p = 0 THEN line
        ELSE SubSeq(line, 1, p + 2) \o new \o From(line, p + 4)

\* the status character of the line: the one in its first bracket
StatusOf(line) ==
    LET q == FirstFrom(line, "- [", 1)
    IN  IF q > 0 /\ Ch(line, q + 4) = "]" THEN Ch(line, q + 3) ELSE ""

Changed(a, b) == {k \in 1..Len(a) : Ch(a, k) # Ch(b, k)}

\* C20: ReplaceStatus changes only the status character of the first
\* "- [old]" occurrence, leaves every other character as it was, and returns
\* the line unchanged when old is not the line's status character;
\* ConvertActiveToTouched changes at most one character of a line.
C20_OnlyStatusChanges ==
    /\ call.fn = "ReplaceStatus" =>
         /\ call.result = ReplaceFirst(call.line, call.oldMarker, call.newMarker)
         /\ StatusOf(call.line) # call.oldMarker => call.result = call.line
    /\ call.fn = "ConvertActiveToTouched" =>
         /\ Len(call.result) = Len(call.line)
         /\ Cardinality(Changed(call.line, call.result)) <= 1

(***************************************************************************)
(* Properties of ParsePriority and ParseEffort.                            *)
(***************************************************************************)
\* a whole-word token at position i: one uppercase letter and n digits
TokenAt(line, i, n) ==
    /\ Ch(line, i) \in Upper
    /\ \A k \in 1..n : Ch(line, i + k) \in Digits
    /\ i = 1 \/ Ch(line, i - 1) \notin WordChars
    /\ i + n = Len(line) \/ Ch(line, i + n + 1) \notin WordChars

Tokens(line) ==
    {t \in (1..Len(line)) \X (1..Len(line)) :
        t[1] + t[2] <= Len(line) /\ TokenAt(line, t[1], t[2])}

\* the first token of a line that has one
FirstToken(line) ==
    CHOOSE t \in Tokens(line) : \A u \in Tokens(line) : t[1] <= u[1]

\* the number a run of digits writes: digit k counts 10^(n - k)
RECURSIVE Sum(_, _)
Sum(f, n) == IF n = 0 THEN 0 ELSE f[n] + Sum(f, n - 1)

Decimal(line, i, n) ==
    Sum([k \in 1..n |->
           (CHOOSE d \in 0..9 : Ch("0123456789", d + 1) = Ch(line, i + k))
             * 10 ^ (n - k)], n)

PriorityOf(letter) ==
    IF letter = "A" THEN "PriorityCritical"
    ELSE IF letter = "B" THEN "PriorityHigh"
    ELSE IF letter = "C" THEN "PriorityMedium"
    ELSE IF letter = "D" THEN "PriorityLow"
    ELSE "PriorityNone"

\* C21: ParsePriority and ParseEffort both read only the first whole-word
\* token made of one uppercase letter immediately followed by digits: the
\* letter gives Critical for A, High for B, Medium for C, Low for D and
\* None otherwise; the effort is the digit run of that same token as an
\* integer, whatever its letter; with no such token the results are None
\* and 0.
C21_FirstTokenDecides ==
    call.fn \in {"ParsePriority", "ParseEffort"} =>
      IF Tokens(call.line) = {}
      THEN call.result = IF call.fn = "ParsePriority" THEN "PriorityNone" ELSE 0
      ELSE LET t == FirstToken(call.line)
           IN  call.result =
                 IF call.fn = "ParsePriority"
                 THEN PriorityOf(Ch(call.line, t[1]))
                 ELSE Decimal(call.line, t[1], t[2])

W_C21_FirstTokenDecides ==
    /\ Len(ops) = 2
    /\ ops[1].op = "ParsePriority"
    /\ call = [fn |-> "ParseEffort", line |-> "- [x] b2 xA1 !! E8", result |-> 8]
    /\ ParsePriority(call.line) = "PriorityNone"

(***************************************************************************)
(* Properties of updateCalendar.                                           *)
(***************************************************************************)
Calls(name) == {k \in 1..Len(ops) : ops[k].op = name}

\* C22: in one run that reaches the reminders service ClearList is called
\* exactly once and before every AddReminder; after a failed ClearList no
\* AddReminder is called; the first failing AddReminder ends the run and no
\* AddReminder follows it.
C22_ClearOnceThenAdd ==
    variant = "updateCalendar" =>
      /\ Cardinality(Calls("ClearList")) <= 1
      /\ pc \in {"cleared", "scanning", "done"} =>
           Cardinality(Calls("ClearList")) = 1
      /\ \A k \in Calls("AddReminder") :
           \E j \in Calls("ClearList") : j < k /\ ops[j].ok
      /\ \A k \in Calls("AddReminder") \cup Calls("ClearList") :
           ~ops[k].ok => k = Len(ops) /\ pc = "failed"

W_C22_ClearOnceThenAdd ==
    /\ variant = "updateCalendar"
    /\ pc = "failed"
    /\ Len(ops) = 5
    /\ ops[2] = Op("ClearList", TRUE)
    /\ ops[4].op = "AddReminder" /\ ops[4].ok
    /\ ops[5].op = "AddReminder" /\ ~ops[5].ok
    /\ cal.i < Len(lines)
    /\ cal.currentTask # ""

\* the lines at the indices of S, in the order of the document
RECURSIVE LinesAt(_)
LinesAt(S) ==
    IF S = {} THEN <<>>
    ELSE LET m == CHOOSE x \in S : \A y \in S : x <= y
         IN  <<lines[m]>> \o LinesAt(S \ {m})

\* C30 as stated: the note of a reminder is made only of detail lines of
\* the contiguous group that directly follows the reminder's own task line,
\* in document order, so no detail line that comes after a later completed
\* task or plain line is attached to the earlier task; and the due-today
\* flag is the active marker of that same task line.
C30_NoteFromOwnGroup ==
    variant = "updateCalendar" =>
      \A k \in Calls("AddReminder") :
         LET from == ops[k].from
         IN  /\ \E S \in SUBSET ((from + 1)..(GroupEnd(from) - 1)) :
                   ops[k].note = Join(LinesAt(S))
             /\ ops[k].withDueDate = ActiveMarked(lines[from])

(***************************************************************************)
(* Properties of the groups of a record-keep run.                          *)
(***************************************************************************)
\* C23: a top-level task that is completed and touched (status X) or
\* completed and active: its line is emitted to the journal batch and to
\* the archive batch, its contiguous trailing detail lines are emitted to
\* the journal batch only, never to the archive batch, and nothing of the
\* group is kept in the rewritten document.
C23_DetailsJournalOnly ==
    pc = "done" =>
      /\ FilesWritten
      /\ \A i \in 1..Len(lines) :
          LET line == lines[i]
              e == GroupEnd(i)
          IN  ( \/ HasStatus(line, {"X"})
                \/ HasStatus(line, {"x", "X"}) /\ ActiveMarked(line) )
              => /\ i \in Range(route.journal) \cap Range(route.archive)
                 /\ \A j \in (i + 1)..(e - 1) :
                      /\ \E p \in 1..Len(journalEntries) :
                            /\ route.journal[p] = j
                            /\ journalEntries[p] = lines[j]
                      /\ j \notin Range(route.archive)
                 /\ Range(route.updated) \cap (i..(e - 1)) = {}

W_C23_DetailsJournalOnly ==
    /\ pc = "done"
    /\ lines = <<"- [x] !! a", "  - d", "  - [x] c">>
    /\ journalEntries = <<Entry(timestamp, "- [x] !! a"), "  - d", "  - [x] c">>
    /\ archiveEntries = <<Entry(timestamp, "- [x] !! a")>>
    /\ archiveFile.content = Entry(timestamp, "- [x] !! a") \o "\nOLD\n"
    /\ source.content = ""

\* the lines i..(i + n) of the input are n + 1 consecutive entries of a
\* batch whose entries were made from the input lines from
RunIn(from, i, n) ==
    \E p \in 1..Len(from) :
        /\ p + n <= Len(from)
        /\ \A d \in 0..n : from[p + d] = i + d

\* C24: the group of a touched, active or completed top-level task is the
\* maximal run of detail lines that directly follows it: these lines are
\* routed with the task, directly after it in each batch the task's group
\* goes to.  The first line that is not a detail line ends the group, a
\* blank line included: an indented bullet after a blank or plain line is
\* routed on its own, kept in the document, and journaled with its own
\* timestamp when it carries an uppercase status.
C24_GroupIsMaximalRun ==
    pc = "done" =>
      \A i \in 1..Len(lines) :
          LET line == lines[i]
              e == GroupEnd(i)
              n == e - 1 - i
              journaled == HasStatus(line, {"B", "W", "X"}) \/ ActiveMarked(line)
              completed == HasStatus(line, {"x", "X"})
          IN  (journaled \/ completed) =>
                /\ journaled => RunIn(route.journal, i, n)
                /\ journaled /\ ~completed => RunIn(route.updated, i, n)
                /\ ~journaled => RunIn(route.archive, i, n)
                /\ (e < Len(lines) /\ Plain(lines[e])
                      /\ IsTaskDetail(lines[e + 1])) =>
                     LET l == lines[e + 1]
                     IN  /\ \E q \in 2..Len(updatedLines) :
                               /\ route.updated[q] = e + 1
                               /\ route.updated[q - 1] = e
                         /\ e + 1 \notin Range(route.archive)
                         /\ IF UppercaseStatus(l)
                            THEN \E p \in 1..Len(journalEntries) :
                                    /\ route.journal[p] = e + 1
                                    /\ journalEntries[p] = Entry(timestamp, l)
                            ELSE e + 1 \notin Range(route.journal)

W_C24_GroupIsMaximalRun ==
    /\ pc = "done"
    /\ lines = <<"- [x] a", "", "  - [W] c">>
    /\ archiveEntries = <<Entry(timestamp, "- [x] a")>>
    /\ journalEntries = <<Entry(timestamp, "  - [W] c")>>
    /\ source.content = "\n  - [w] c"

\* C25: a top-level active task that is not completed is kept by a run with
\* its marker, only its status letter lowercased, and with its detail lines;
\* the next run over the rewritten document journals the kept line and its
\* detail lines again, and keeps them again.
C25_ActiveJournaledAgain ==
    [][ (pc = "done" /\ pc' = "done" /\ runs' = runs + 1) =>
          \A i \in 1..Len(lines) :
             LET line == lines[i]
                 n == GroupEnd(i) - 1 - i
             IN  (ActiveMarked(line) /\ ~HasStatus(line, {"x", "X"})) =>
                   \E q \in 1..Len(updatedLines) :
                      /\ q + n <= Len(updatedLines)
                      /\ \A d \in 0..n : route.updated[q + d] = i + d
                      /\ updatedLines[q] = StatusLowered(line)
                      /\ ActiveMarked(updatedLines[q])
                      /\ \A d \in 0..n : lines'[q + d] = updatedLines[q + d]
                      /\ \A d \in 1..n : lines'[q + d] = lines[i + d]
                      /\ \E p \in 1..Len(journalEntries') :
                            /\ p + n <= Len(journalEntries')
                            /\ \A d \in 0..n :
                                /\ route'.journal[p + d] = q + d
                                /\ journalEntries'[p + d] =
                                     IF d = 0
                                     THEN Entry(timestamp', updatedLines[q])
                                     ELSE lines[i + d]
                      /\ RunIn(route'.updated, q, n)
      ]_vars

W_C25_ActiveJournaledAgain ==
    /\ pc = "done"
    /\ runs = 2
    /\ lines = <<"- [w] !! a", "  - d", "\t- d">>
    /\ journalEntries = <<Entry(timestamp, "- [w] !! a"), "  - d", "\t- d">>
    /\ source.content = "- [w] !! a\n  - d\n\t- d"
    /\ Contains(journalFile.content, "- [W] !! a\n  - d\n\t- d\n")

\* line b is line a up to bracketed status letters B, W, X in lowercase
SameButStatus(a, b) ==
    /\ Len(a) = Len(b)
    /\ \A k \in 1..Len(a) :
          \/ Ch(b, k) = Ch(a, k)
          \/ /\ Ch(a, k) \in {"B", "W", "X"}
             /\ Ch(b, k) = Lower(Ch(a, k))
             /\ Ch(a, k - 1) = "[" /\ Ch(a, k + 1) = "]"

\* input line i is entry p of the journal batch, of the archive batch, of
\* the rewritten document
InJournal(i, p) ==
    /\ p <= Len(journalEntries)
    /\ route.journal[p] = i
    /\ journalEntries[p] \in {lines[i], timestamp \o " " \o lines[i]}

InArchive(i, p) ==
    /\ p <= Len(archiveEntries)
    /\ route.archive[p] = i
    /\ archiveEntries[p] \in {lines[i], timestamp \o " " \o lines[i]}

InUpdated(i, p) ==
    /\ p <= Len(updatedLines)
    /\ route.updated[p] = i
    /\ SameButStatus(lines[i], updatedLines[p])

Injective(f) == \A p, q \in 1..Len(f) : f[p] = f[q] => p = q

\* C26: a run loses no line: every line of the input is routed once, as a
\* top-level line or as a consumed child, and so is in the rewritten
\* document, in the journal batch or in the archive batch; no input line is
\* in a batch or in the rewritten document more than once, and none is both
\* kept and archived.
C26_NoLineLost ==
    pc = "done" =>
      /\ FilesWritten
      /\ \A i \in 1..Len(lines) :
            \/ \E p \in 1..Len(route.journal) : InJournal(i, p)
            \/ \E p \in 1..Len(route.archive) : InArchive(i, p)
            \/ \E p \in 1..Len(route.updated) : InUpdated(i, p)
      /\ Injective(route.updated)
      /\ Injective(route.journal)
      /\ Injective(route.archive)
      /\ Len(route.updated) = Len(updatedLines)
      /\ Range(route.updated) \cap Range(route.archive) = {}

W_C26_NoLineLost ==
    /\ pc = "done"
    /\ lines = <<"- [x] a", "  - d", "  - d">>
    /\ Len(archiveEntries) = 3
    /\ route.archive = <<1, 2, 3>>
    /\ journalEntries = <<>>
    /\ updatedLines = <<>>

Increasing(f) == \A p, q \in 1..Len(f) : p < q => f[p] < f[q]

\* line b is line a, or line a with the letter of its status bracket, the
\* first bracket after the indentation, in lowercase
StatusLetterLowered(a, b) ==
    \/ b = a
    \/ \E k \in LeadRuns(a, Blank, 0) :
          /\ HasPrefixAt(a, k + 1, "- [")
          /\ Ch(a, k + 4) \in {"B", "W", "X"}
          /\ Ch(a, k + 5) = "]"
          /\ b = SubSeq(a, 1, k + 3) \o Lower(Ch(a, k + 4)) \o From(a, k + 5)

\* C27 as stated: the rewritten document is a subsequence of the input
\* lines in input order, each kept line equal to its input line except for
\* a lowercased status letter; the journal batch and the archive batch list
\* their entries in input order, and each parent is directly followed by
\* its own detail lines.
C27_OrderAndContent ==
    pc = "done" =>
      /\ Len(route.updated) = Len(updatedLines)
      /\ Increasing(route.updated)
      /\ \A q \in 1..Len(updatedLines) :
            StatusLetterLowered(lines[route.updated[q]], updatedLines[q])
      /\ Increasing(route.journal)
      /\ Increasing(route.archive)
      /\ \A p \in 1..Len(journalEntries) : InJournal(route.journal[p], p)
      /\ \A p \in 1..Len(archiveEntries) : InArchive(route.archive[p], p)
      /\ \A i \in 1..Len(lines) :
            LET line == lines[i]
                n == GroupEnd(i) - 1 - i
                journaled == HasStatus(line, {"B", "W", "X"}) \/ ActiveMarked(line)
            IN  /\ journaled => RunIn(route.journal, i, n)
                /\ ~journaled /\ HasStatus(line, {"x"}) =>
                      RunIn(route.archive, i, n)

\* C28: no line is both a task and a detail line, so a top-level task line
\* is never consumed as a detail line of the task before it: it is routed
\* by its own status, journaled iff it is touched or active, archived iff
\* it is completed, kept iff it is not completed, and its entries carry the
\* timestamp of a parent.
C28_TaskNeverChild ==
    /\ call.fn = "Classify" => ~(call.isTask /\ call.isTaskDetail)
    /\ pc = "done" =>
         \A i \in 1..Len(lines) :
            LET line == lines[i]
            IN  /\ ~(IsTask(line) /\ IsTaskDetail(line))
                /\ HasPrefixAt(line, 1, "- [") =>
                     /\ i \in Range(route.journal) <=>
                          HasStatus(line, {"B", "W", "X"}) \/ ActiveMarked(line)
                     /\ i \in Range(route.archive) <=> HasStatus(line, {"x", "X"})
                     /\ i \in Range(route.updated) <=> ~HasStatus(line, {"x", "X"})
                     /\ \A p \in 1..Len(journalEntries) :
                          route.journal[p] = i =>
                            journalEntries[p] = timestamp \o " " \o line
                     /\ \A p \in 1..Len(archiveEntries) :
                          route.archive[p] = i =>
                            archiveEntries[p] = timestamp \o " " \o line

W_C28_TaskNeverChild ==
    /\ pc = "done"
    /\ lines = <<"- [W] a", "  - d", "- [ ] a">>
    /\ journalEntries = <<Entry(timestamp, "- [W] a"), "  - d">>
    /\ route.updated = <<1, 2, 3>>
    /\ source.content = "- [w] a\n  - d\n- [ ] a"

(***************************************************************************)
(* Properties of a run that fails after the journal write.                 *)
(***************************************************************************)
\* the run that just ended failed at the archive write
FailedAtArchive ==
    /\ pc = "failed"
    /\ Len(ops) = 3
    /\ ops[3] = Op("WriteToArchive", FALSE)

\* C29: when a run fails at the archive write the journal file already
\* starts with the run's journal batch and the source document is as it
\* was; the next run reads the same lines and emits the same lines to the
\* journal batch, each task line with the new run's timestamp, and its
\* journal write puts the new batch before the old one, so the journal
\* holds an entry for each of these lines twice.
C29_JournaledTwice ==
    [][ /\ (pc = "journaled" /\ pc' = "failed") =>
             /\ source' = source
             /\ source.content = Join(lines)
             /\ journalFile' = journalFile
             /\ journalEntries # <<>> =>
                  HasPrefixAt(journalFile.content, 1, Join(journalEntries) \o "\n")
        /\ (FailedAtArchive /\ pc' = "loaded") =>
             /\ lines' = lines
             /\ route'.journal = route.journal
             /\ Len(journalEntries') = Len(journalEntries)
             /\ \A p \in 1..Len(journalEntries) :
                   LET line == lines[route.journal[p]]
                   IN  IF journalEntries[p] = line
                       THEN journalEntries'[p] = line
                       ELSE /\ journalEntries[p] = timestamp \o " " \o line
                            /\ journalEntries'[p] = timestamp' \o " " \o line
             /\ journalEntries # <<>> =>
                  HasPrefixAt(journalFile.content, 1, Join(journalEntries) \o "\n")
        /\ (pc = "loaded" /\ pc' = "journaled" /\ journalEntries # <<>>) =>
             journalFile'.content =
               Join(journalEntries) \o "\n" \o PrevContent(journalFile)
      ]_vars

W_C29_JournaledTwice ==
    /\ pc = "done"
    /\ runs = 2
    /\ lines = <<"- [X] a", "  - d">>
    /\ journalFile.content =
         FormatTimestamp(2) \o " - [X] a\n  - d\n"
           \o FormatTimestamp(1) \o " - [X] a\n  - d\nOLD\n"
    /\ archiveFile.content = FormatTimestamp(2) \o " - [X] a\nOLD\n"
    /\ source.content = ""

====
